---- MODULE Spec2Model ----
(***************************************************************************)
(* A model of the ramdisk contract (src/ramdisk.cpp): files claimed under  *)
(* Antelope names, each holding a sparse table of data nodes.               *)
(*                                                                         *)
(* A name is the sequence of its parts between the dots (the invisible     *)
(* trailing dots left out), each part a run of one character.  A table is  *)
(* the set of its rows.  Every action of the contract runs as one          *)
(* transaction: a failed check leaves the tables untouched and only        *)
(* records the message in last.err.                                        *)
(***************************************************************************)
EXTENDS Integers, Sequences, FiniteSets

VARIABLES files, nodes, bids, accounts, last

vars == <<files, nodes, bids, accounts, last>>

(***************************************************************************)
(* Bounds and input sets                                                   *)
(***************************************************************************)
MaxId == 1

MaxCount == 1

NodeIds == 0..MaxId

\* node ids and counts of the specification of contiguous runs
MaxRunId == 2

RunIds == 0..MaxRunId

NodeData == {<<>>, <<7>>}

\* a run of k times the character c
Run(c, k) == [c |-> c, n |-> k]

EmptyName == <<>>

NameA == <<Run("a", 1)>>

NameB == <<Run("b", 1)>>

\* "b.a"
SubName == <<Run("b", 1), Run("a", 1)>>

\* "bbbbbbbbbb.a"
LongSub == <<Run("b", 10), Run("a", 1)>>

\* "aaaaaaaaaaaa"
FullName == <<Run("a", 12)>>

\* "aaaaaaaaaaaaa"
TooLong == <<Run("a", 13)>>

\* every name the model hands to the contract as a filename
Names == {EmptyName, NameA, SubName, LongSub, FullName, TooLong}

\* filenames of the naming specification and of the storage specification
ClaimNames == Names

StoreNames == {NameA}

\* filenames and node ids of the specification of two files: a name and a
\* sub-name of it, one node id in each
PairNames == {NameA, SubName}

PairIds == {0}

\* filename of the specification of contiguous runs
RunNames == {FullName}

\* accounts that may exist on the chain, and those that sign transactions
AccountNames == {NameA, NameB, FullName}

Signers == {NameA, NameB}

\* values passed as the owner argument
OwnerArgs == Signers \cup {EmptyName}

\* high_bid of a row of the namebids table: negative once the auction closed
BidAmounts == {-1, 0, 1}

(***************************************************************************)
(* eosio::name                                                             *)
(***************************************************************************)
\* name::length(): the characters of the parts and the dots between them
RECURSIVE length(_)
length(n) ==
  IF n = <<>> THEN 0
  ELSE IF Len(n) = 1 THEN n[1].n
  ELSE n[1].n + 1 + length(Tail(n))

\* name::suffix(): the part after the last dot, the name itself if none
suffix(n) == IF Len(n) <= 1 THEN n ELSE <<n[Len(n)]>>

(***************************************************************************)
(* Messages                                                                *)
(***************************************************************************)
Ok == "ok"

MissingAuth == "missing authority"

InvalidFilename == "Invalid filename."

FileExists == "File exists."

AuctionOpen == "Suffix auction open."

WrongBidder == "Suffix winning bid not owned."

SuffixUnowned == "Suffix account not owned."

NoFile == "File does not exist."

NotOwner == "Not file owner."

(***************************************************************************)
(* Tables                                                                  *)
(***************************************************************************)
\* struct file: the single field of a row of the files table
file(o) == [owner |-> o]

\* struct node, with the account that pays for the row's RAM
node(i, d, p) == [id |-> i, data |-> d, payer |-> p]

\* struct name_bid, the fields the contract reads
name_bid(n, b, amt) == [newname |-> n, high_bidder |-> b, high_bid |-> amt]

\* iterator past the last row
End == -1

\* nds.find(id): the id when a row has it, else end()
find(tbl, i) == IF \E r \in tbl : r.id = i THEN i ELSE End

\* nds.begin(): the lowest id, else end()
begin(tbl) ==
  IF tbl = {} THEN End
  ELSE (CHOOSE r \in tbl : \A s \in tbl : r.id <= s.id).id

\* nds.erase(it): the table without the row, and the iterator to the next row
erase(tbl, i) == {r \in tbl : r.id # i}

next(tbl, i) == begin({r \in tbl : r.id > i})

\* bids.find(name)
findbid(n) == {r \in bids : r.newname = n}

\* is_account(name)
is_account(n) == n \in accounts

\* require_auth with a slip: any owner argument is taken as authenticated
has_auth_Always(actor, owner) == TRUE

\* require_auth(owner), in a transaction signed by actor
has_auth(actor, owner) == owner = actor

\* the record of the action that ran last: its arguments, its outcome, and
\* what it found when it started (the rows of the file and of its nodes, the
\* namebids row of the suffix, whether the suffix is an account)
Call(op, actor, owner, filename, x, y, d, err) ==
  [op |-> op, actor |-> actor, owner |-> owner, filename |-> filename,
   x |-> x, y |-> y, data |-> d, err |-> err,
   file |-> files[filename], nodes |-> nodes[filename],
   bid |-> findbid(suffix(filename)), acct |-> is_account(suffix(filename))]

(***************************************************************************)
(* create                                                                  *)
(***************************************************************************)
\* AuthorizeName with a slip: a dotted name is never looked up in namebids
AuthorizeName_NoDottedLookup(owner, filename) ==
  LET fnlen    == length(filename)
      sfx      == suffix(filename)
      is_short == fnlen < 12
      current  == IF sfx # filename THEN {} ELSE findbid(sfx)
  IN  IF sfx # filename \/ is_short
      THEN IF current # {}
           THEN LET c == CHOOSE r \in current : TRUE
                IN  IF ~(c.high_bid < 0) THEN AuctionOpen
                    ELSE IF ~(c.high_bidder = owner) THEN WrongBidder
                    ELSE Ok
           ELSE IF owner = sfx \/ (sfx = filename /\ ~is_account(sfx))
                THEN Ok
                ELSE SuffixUnowned
      ELSE Ok

\* AuthorizeName with a slip: the name is checked whatever its form
AuthorizeName_AlwaysChecked(owner, filename) ==
  LET sfx     == suffix(filename)
      current == findbid(sfx)
  IN  IF current # {}
      THEN LET c == CHOOSE r \in current : TRUE
           IN  IF ~(c.high_bid < 0) THEN AuctionOpen
               ELSE IF ~(c.high_bidder = owner) THEN WrongBidder
               ELSE Ok
      ELSE IF owner = sfx \/ (sfx = filename /\ ~is_account(sfx))
           THEN Ok
           ELSE SuffixUnowned

\* AuthorizeName with a slip: a high bid of zero counts as a closed auction
AuthorizeName_ZeroClosed(owner, filename) ==
  LET fnlen    == length(filename)
      sfx      == suffix(filename)
      is_short == fnlen < 12
      current  == findbid(sfx)
  IN  IF sfx # filename \/ is_short
      THEN IF current # {}
           THEN LET c == CHOOSE r \in current : TRUE
                IN  IF ~(c.high_bid <= 0) THEN AuctionOpen
                    ELSE IF ~(c.high_bidder = owner) THEN WrongBidder
                    ELSE Ok
           ELSE IF owner = sfx \/ (sfx = filename /\ ~is_account(sfx))
                THEN Ok
                ELSE SuffixUnowned
      ELSE Ok

\* AuthorizeName with a slip: is_account is not consulted
AuthorizeName_NoAccountCheck(owner, filename) ==
  LET fnlen    == length(filename)
      sfx      == suffix(filename)
      is_short == fnlen < 12
      current  == findbid(sfx)
  IN  IF sfx # filename \/ is_short
      THEN IF current # {}
           THEN LET c == CHOOSE r \in current : TRUE
                IN  IF ~(c.high_bid < 0) THEN AuctionOpen
                    ELSE IF ~(c.high_bidder = owner) THEN WrongBidder
                    ELSE Ok
           ELSE IF owner = sfx \/ sfx = filename
                THEN Ok
                ELSE SuffixUnowned
      ELSE Ok

\* AuthorizeName with a slip: without a namebids row only the suffix passes
AuthorizeName_OwnSuffixOnly(owner, filename) ==
  LET fnlen    == length(filename)
      sfx      == suffix(filename)
      is_short == fnlen < 12
      current  == findbid(sfx)
  IN  IF sfx # filename \/ is_short
      THEN IF current # {}
           THEN LET c == CHOOSE r \in current : TRUE
                IN  IF ~(c.high_bid < 0) THEN AuctionOpen
                    ELSE IF ~(c.high_bidder = owner) THEN WrongBidder
                    ELSE Ok
           ELSE IF owner = sfx THEN Ok ELSE SuffixUnowned
      ELSE Ok

\* the filename authorization check of create: the message of the first
\* failing check, Ok when all pass
AuthorizeName(owner, filename) ==
  LET fnlen    == length(filename)
      sfx      == suffix(filename)
      is_short == fnlen < 12
      current  == findbid(sfx)
  IN  IF sfx # filename \/ is_short
      THEN IF current # {}
           THEN LET c == CHOOSE r \in current : TRUE
                IN  IF ~(c.high_bid < 0) THEN AuctionOpen
                    ELSE IF ~(c.high_bidder = owner) THEN WrongBidder
                    ELSE Ok
           ELSE IF owner = sfx \/ (sfx = filename /\ ~is_account(sfx))
                THEN Ok
                ELSE SuffixUnowned
      ELSE Ok

\* CreateResult with a slip: the file is not required to be new
CreateResult_NoExistsCheck(actor, owner, filename) ==
  LET fnlen == length(filename)
  IN  IF ~(fnlen >= 1 /\ fnlen <= 12) THEN InvalidFilename
      ELSE IF ~has_auth(actor, owner) THEN MissingAuth
      ELSE AuthorizeName(owner, filename)

\* the checks of create in their order: the message of the first failing one
CreateResult(actor, owner, filename) ==
  LET fnlen == length(filename)
  IN  IF ~(fnlen >= 1 /\ fnlen <= 12) THEN InvalidFilename
      ELSE IF ~has_auth(actor, owner) THEN MissingAuth
      ELSE IF files[filename] # {} THEN FileExists
      ELSE AuthorizeName(owner, filename)

\* create with a slip: the row is written before the name check, and stays
create_EmplaceBeforeNameCheck(actor, owner, filename) ==
  LET err == CreateResult(actor, owner, filename)
  IN  /\ files' = IF err \notin {InvalidFilename, MissingAuth, FileExists}
                  THEN [files EXCEPT ![filename] = @ \cup {file(owner)}]
                  ELSE files
      /\ last' = Call("create", actor, owner, filename, 0, 0, <<>>, err)
      /\ UNCHANGED <<nodes, bids, accounts>>

create(actor, owner, filename) ==
  LET err == CreateResult(actor, owner, filename)
  IN  /\ files' = IF err = Ok
                  THEN [files EXCEPT ![filename] = @ \cup {file(owner)}]
                  ELSE files
      /\ last' = Call("create", actor, owner, filename, 0, 0, <<>>, err)
      /\ UNCHANGED <<nodes, bids, accounts>>

(***************************************************************************)
(* Operations of the file owner                                            *)
(***************************************************************************)
\* auth_and_find_file with a slip: the stored owner is not compared
auth_and_find_file_NoOwnerCheck(actor, owner, filename) ==
  IF ~has_auth(actor, owner) THEN MissingAuth
  ELSE IF files[filename] = {} THEN NoFile
  ELSE Ok

\* auth_and_find_file with a slip: require_auth is left out
auth_and_find_file_NoAuth(actor, owner, filename) ==
  IF files[filename] = {} THEN NoFile
  ELSE IF ~((CHOOSE r \in files[filename] : TRUE).owner = owner) THEN NotOwner
  ELSE Ok

\* auth_and_find_file with a slip: a missing file is reported as not owned
auth_and_find_file_MissingAsNotOwner(actor, owner, filename) ==
  IF ~has_auth(actor, owner) THEN MissingAuth
  ELSE IF files[filename] = {} THEN NotOwner
  ELSE IF ~((CHOOSE r \in files[filename] : TRUE).owner = owner) THEN NotOwner
  ELSE Ok

\* auth_and_find_file: the message of the first failing check, Ok when the
\* caller is the owner stored in the file's row
auth_and_find_file(actor, owner, filename) ==
  IF ~has_auth(actor, owner) THEN MissingAuth
  ELSE IF files[filename] = {} THEN NoFile
  ELSE IF ~((CHOOSE r \in files[filename] : TRUE).owner = owner) THEN NotOwner
  ELSE Ok

\* clear_nodes with a slip: the loop body runs once
clear_loop_Once(tbl, nit) ==
  IF nit # End THEN erase(tbl, nit) ELSE tbl

\* the loop of clear_nodes: erase until end()
RECURSIVE clear_loop(_, _)
clear_loop(tbl, nit) ==
  IF nit # End THEN clear_loop(erase(tbl, nit), next(tbl, nit)) ELSE tbl

\* clear_nodes with a slip: the loop starts after the first row
clear_nodes_SkipsFirst(tbl) == clear_loop(tbl, next(tbl, begin(tbl)))

\* clear_nodes: erase from begin() until end()
clear_nodes(tbl) == clear_loop(tbl, begin(tbl))

reset(actor, owner, filename) ==
  LET err == auth_and_find_file(actor, owner, filename)
  IN  /\ nodes' = IF err = Ok
                  THEN [nodes EXCEPT ![filename] = clear_nodes(@)]
                  ELSE nodes
      /\ last' = Call("reset", actor, owner, filename, 0, 0, <<>>, err)
      /\ UNCHANGED <<files, bids, accounts>>

\* del with a slip: the file's row is erased, its nodes are not cleared
del_KeepsNodes(actor, owner, filename) ==
  LET err == auth_and_find_file(actor, owner, filename)
  IN  /\ files' = IF err = Ok
                  THEN [files EXCEPT ![filename] =
                          @ \ {CHOOSE r \in files[filename] : TRUE}]
                  ELSE files
      /\ last' = Call("del", actor, owner, filename, 0, 0, <<>>, err)
      /\ UNCHANGED <<nodes, bids, accounts>>

del(actor, owner, filename) ==
  LET err == auth_and_find_file(actor, owner, filename)
  IN  /\ files' = IF err = Ok
                  THEN [files EXCEPT ![filename] =
                          @ \ {CHOOSE r \in files[filename] : TRUE}]
                  ELSE files
      /\ nodes' = IF err = Ok
                  THEN [nodes EXCEPT ![filename] = clear_nodes(@)]
                  ELSE nodes
      /\ last' = Call("del", actor, owner, filename, 0, 0, <<>>, err)
      /\ UNCHANGED <<bids, accounts>>

\* the row of setimmutable's modify
immutable(row) == [row EXCEPT !.owner = EmptyName]

setimmutable(actor, owner, filename) ==
  LET err == auth_and_find_file(actor, owner, filename)
  IN  /\ files' = IF err = Ok
                  THEN [files EXCEPT ![filename] = {immutable(r) : r \in @}]
                  ELSE files
      /\ last' = Call("setimmutable", actor, owner, filename, 0, 0, <<>>, err)
      /\ UNCHANGED <<nodes, bids, accounts>>

\* setnode with a slip: an existing node is left as it is
setnode_rows_NoOverwrite(tbl, owner, nodeid, nodedata) ==
  IF find(tbl, nodeid) = End
  THEN tbl \cup {node(nodeid, nodedata, owner)}
  ELSE tbl

\* the node table after setnode's emplace (payer owner) or modify (same payer)
setnode_rows(tbl, owner, nodeid, nodedata) ==
  IF find(tbl, nodeid) = End
  THEN tbl \cup {node(nodeid, nodedata, owner)}
  ELSE {IF r.id = nodeid THEN [r EXCEPT !.data = nodedata] ELSE r : r \in tbl}

\* setnode with a slip: the nodes table is scoped by the suffix of the filename
setnode_SuffixScope(actor, owner, filename, nodeid, nodedata) ==
  LET err == auth_and_find_file(actor, owner, filename)
  IN  /\ nodes' = IF err = Ok
                  THEN [nodes EXCEPT ![suffix(filename)] =
                          setnode_rows(@, owner, nodeid, nodedata)]
                  ELSE nodes
      /\ last' = Call("setnode", actor, owner, filename, nodeid, 0, nodedata, err)
      /\ UNCHANGED <<files, bids, accounts>>

setnode(actor, owner, filename, nodeid, nodedata) ==
  LET err == auth_and_find_file(actor, owner, filename)
  IN  /\ nodes' = IF err = Ok
                  THEN [nodes EXCEPT ![filename] =
                          setnode_rows(@, owner, nodeid, nodedata)]
                  ELSE nodes
      /\ last' = Call("setnode", actor, owner, filename, nodeid, 0, nodedata, err)
      /\ UNCHANGED <<files, bids, accounts>>

\* delnode with a slip: lower_bound instead of find
delnode_rows_LowerBound(tbl, nodeid) ==
  LET nit == begin({r \in tbl : r.id >= nodeid})
  IN  IF nit # End THEN erase(tbl, nit) ELSE tbl

\* the node table after delnode's find and erase
delnode_rows(tbl, nodeid) ==
  IF find(tbl, nodeid) # End THEN erase(tbl, nodeid) ELSE tbl

delnode(actor, owner, filename, nodeid) ==
  LET err == auth_and_find_file(actor, owner, filename)
  IN  /\ nodes' = IF err = Ok
                  THEN [nodes EXCEPT ![filename] = delnode_rows(@, nodeid)]
                  ELSE nodes
      /\ last' = Call("delnode", actor, owner, filename, nodeid, 0, <<>>, err)
      /\ UNCHANGED <<files, bids, accounts>>

\* the loop of delnodes: erase while the iterator's id is at most endid
RECURSIVE delnodes_loop(_, _, _)
delnodes_loop(tbl, nit, endid) ==
  IF nit # End /\ nit <= endid
  THEN delnodes_loop(erase(tbl, nit), next(tbl, nit), endid)
  ELSE tbl

delnodes_rows(tbl, startid, endid) ==
  delnodes_loop(tbl, find(tbl, startid), endid)

delnodes(actor, owner, filename, startid, endid) ==
  LET err == auth_and_find_file(actor, owner, filename)
  IN  /\ nodes' = IF err = Ok
                  THEN [nodes EXCEPT ![filename] = delnodes_rows(@, startid, endid)]
                  ELSE nodes
      /\ last' = Call("delnodes", actor, owner, filename, startid, endid, <<>>, err)
      /\ UNCHANGED <<files, bids, accounts>>

\* delnodec with a slip: the loop does not compare the id with the expected one
RECURSIVE delnodec_loop_NoGapStop(_, _, _)
delnodec_loop_NoGapStop(tbl, nit, expected) ==
  IF nit # End
  THEN delnodec_loop_NoGapStop(erase(tbl, nit), next(tbl, nit), expected + 1)
  ELSE tbl

\* the loop of delnodec: erase while the iterator's id is the expected one
RECURSIVE delnodec_loop(_, _, _)
delnodec_loop(tbl, nit, expected) ==
  IF nit # End /\ nit = expected
  THEN delnodec_loop(erase(tbl, nit), next(tbl, nit), expected + 1)
  ELSE tbl

delnodec_rows(tbl, startid, count) ==
  delnodec_loop(tbl, find(tbl, startid), startid)

delnodec(actor, owner, filename, startid, count) ==
  LET err == auth_and_find_file(actor, owner, filename)
  IN  /\ nodes' = IF err = Ok
                  THEN [nodes EXCEPT ![filename] = delnodec_rows(@, startid, count)]
                  ELSE nodes
      /\ last' = Call("delnodec", actor, owner, filename, startid, count, <<>>, err)
      /\ UNCHANGED <<files, bids, accounts>>

(***************************************************************************)
(* The chain around the contract: accounts and the namebids table          *)
(***************************************************************************)
Env ==
  [op |-> "env", actor |-> EmptyName, owner |-> EmptyName, filename |-> EmptyName,
   x |-> 0, y |-> 0, data |-> <<>>, err |-> Ok,
   file |-> {}, nodes |-> {}, bid |-> {}, acct |-> FALSE]

\* an account is created; accounts are never removed
newaccount(n) ==
  /\ n \notin accounts
  /\ accounts' = accounts \cup {n}
  /\ last' = Env
  /\ UNCHANGED <<files, nodes, bids>>

\* the system contract writes the row of a name: a bid (high_bid >= 0) or
\* the closing of the auction (high_bid < 0)
setbid(row) ==
  /\ row \notin bids
  /\ bids' = (bids \ findbid(row.newname)) \cup {row}
  /\ last' = Env
  /\ UNCHANGED <<files, nodes, accounts>>

\* the system contract erases the row of a name
erasebid(n) ==
  /\ findbid(n) # {}
  /\ bids' = bids \ findbid(n)
  /\ last' = Env
  /\ UNCHANGED <<files, nodes, accounts>>

\* the rows the system contract may write in each specification
StoreBids == {name_bid(NameA, NameB, -1)}

PairBids == {name_bid(NameA, NameB, amt) : amt \in {-1, 1}}

NamingBids ==
  {name_bid(NameA, b, amt) : b \in Signers, amt \in BidAmounts}
    \cup {name_bid(FullName, NameB, -1)}

(***************************************************************************)
(* Specifications                                                          *)
(***************************************************************************)
Start == [Env EXCEPT !.op = "init"]

\* Storage: every action of the contract on one file, whose name is open to
\* account a by default and to account b once b has won its auction
Init ==
  /\ files = [n \in Names |-> {}]
  /\ nodes = [n \in Names |-> {}]
  /\ bids = {}
  /\ accounts = Signers
  /\ last = Start

Next ==
  \/ \E actor \in Signers \cap accounts, owner \in OwnerArgs, filename \in StoreNames :
       create(actor, owner, filename)
  \/ \E actor \in Signers \cap accounts, owner \in OwnerArgs, filename \in StoreNames :
       reset(actor, owner, filename)
  \/ \E actor \in Signers \cap accounts, owner \in OwnerArgs, filename \in StoreNames :
       del(actor, owner, filename)
  \/ \E actor \in Signers \cap accounts, owner \in OwnerArgs, filename \in StoreNames :
       setimmutable(actor, owner, filename)
  \/ \E actor \in Signers \cap accounts, owner \in OwnerArgs, filename \in StoreNames,
        nodeid \in NodeIds, nodedata \in NodeData :
       setnode(actor, owner, filename, nodeid, nodedata)
  \/ \E actor \in Signers \cap accounts, owner \in OwnerArgs, filename \in StoreNames,
        nodeid \in NodeIds :
       delnode(actor, owner, filename, nodeid)
  \/ \E actor \in Signers \cap accounts, owner \in OwnerArgs, filename \in StoreNames,
        startid \in NodeIds, endid \in NodeIds :
       delnodes(actor, owner, filename, startid, endid)
  \/ \E actor \in Signers \cap accounts, owner \in OwnerArgs, filename \in StoreNames,
        startid \in NodeIds, count \in 0..MaxCount :
       delnodec(actor, owner, filename, startid, count)
  \/ \E r \in StoreBids : setbid(r)
  \/ \E n \in StoreNames : erasebid(n)

Spec == Init /\ [][Next]_vars

\* Naming: create over every kind of filename, while accounts appear and
\* auctions open, close and are erased
InitNaming ==
  /\ files = [n \in Names |-> {}]
  /\ nodes = [n \in Names |-> {}]
  /\ bids = {}
  /\ accounts = {NameB}
  /\ last = Start

NextNaming ==
  \/ \E actor \in Signers \cap accounts, owner \in OwnerArgs, filename \in ClaimNames :
       create(actor, owner, filename)
  \/ \E n \in AccountNames : newaccount(n)
  \/ \E r \in NamingBids : setbid(r)
  \/ \E n \in {NameA, FullName} : erasebid(n)

SpecNaming == InitNaming /\ [][NextNaming]_vars

\* Contiguous runs: create, setnode and delnodec on one file of a full-length
\* name, over ids that leave room for a run, a gap and a node behind it
NextRuns ==
  \/ \E actor \in Signers \cap accounts, owner \in OwnerArgs, filename \in RunNames :
       create(actor, owner, filename)
  \/ \E actor \in Signers \cap accounts, owner \in OwnerArgs, filename \in RunNames,
        nodeid \in RunIds, nodedata \in NodeData :
       setnode(actor, owner, filename, nodeid, nodedata)
  \/ \E actor \in Signers \cap accounts, owner \in OwnerArgs, filename \in RunNames,
        startid \in RunIds, count \in RunIds :
       delnodec(actor, owner, filename, startid, count)

SpecRuns == Init /\ [][NextRuns]_vars

\* Two files: every action of the contract on a name and on a sub-name of it
\* (and create on a name that is too long), while the auction of the name
\* opens, closes and is erased
NextPair ==
  \/ \E actor \in Signers \cap accounts, owner \in OwnerArgs,
        filename \in PairNames \cup {TooLong} :
       create(actor, owner, filename)
  \/ \E actor \in Signers \cap accounts, owner \in OwnerArgs, filename \in PairNames :
       reset(actor, owner, filename)
  \/ \E actor \in Signers \cap accounts, owner \in OwnerArgs, filename \in PairNames :
       del(actor, owner, filename)
  \/ \E actor \in Signers \cap accounts, owner \in OwnerArgs, filename \in PairNames :
       setimmutable(actor, owner, filename)
  \/ \E actor \in Signers \cap accounts, owner \in OwnerArgs, filename \in PairNames,
        nodeid \in PairIds, nodedata \in NodeData :
       setnode(actor, owner, filename, nodeid, nodedata)
  \/ \E actor \in Signers \cap accounts, owner \in OwnerArgs, filename \in PairNames,
        nodeid \in PairIds :
       delnode(actor, owner, filename, nodeid)
  \/ \E actor \in Signers \cap accounts, owner \in OwnerArgs, filename \in PairNames,
        startid \in PairIds, endid \in PairIds :
       delnodes(actor, owner, filename, startid, endid)
  \/ \E actor \in Signers \cap accounts, owner \in OwnerArgs, filename \in PairNames,
        startid \in PairIds, count \in 0..MaxCount :
       delnodec(actor, owner, filename, startid, count)
  \/ \E r \in PairBids : setbid(r)
  \/ \E n \in {NameA} : erasebid(n)

SpecPair == Init /\ [][NextPair]_vars

(***************************************************************************)
(* Properties                                                              *)
(***************************************************************************)
\* the last action passed require_auth
Authenticated == has_auth(last.actor, last.owner)

\* the last action was create on a name of valid length that had no file
FreshCreate ==
  /\ last.op = "create"
  /\ Authenticated
  /\ length(last.filename) >= 1 /\ length(last.filename) <= 12
  /\ last.file = {}

Dotted(n) == suffix(n) # n

\* the row create leaves behind
Created == files[last.filename] = {file(last.owner)}

\* the file's owner is the empty name
Frozen(n) == files[n] = {file(EmptyName)}

GatedOps ==
  {"reset", "del", "setimmutable", "setnode", "delnode", "delnodes", "delnodec"}

\* C1 as stated: create of a dotted name that has no file succeeds exactly
\* when the claimant is the suffix, whatever namebids holds for the suffix.
C1_Original ==
  (FreshCreate /\ Dotted(last.filename))
    => (last.err = Ok <=> last.owner = suffix(last.filename))

\* C1 amended: create of a dotted name that has no file succeeds exactly when
\* either namebids has no row for the suffix and the claimant is the suffix,
\* or it has a row whose auction is closed and whose high bidder is the
\* claimant.
C1_Amended ==
  (FreshCreate /\ Dotted(last.filename))
    => (last.err = Ok <=>
          IF last.bid = {}
          THEN last.owner = suffix(last.filename)
          ELSE \E r \in last.bid : r.high_bid < 0 /\ r.high_bidder = last.owner)

\* a dotted name created by the auction winner, who is not the suffix
C1_Witness ==
  /\ FreshCreate /\ Dotted(last.filename)
  /\ \E r \in last.bid : r.high_bid < 0 /\ r.high_bidder = last.owner
  /\ last.owner # suffix(last.filename)
  /\ last.err = Ok /\ Created

\* C2 as stated: a successful delnodes leaves exactly the nodes whose id is
\* outside [startid, endid], with their data, also when startid has no node.
C2_RangeRemoved ==
  (last.op = "delnodes" /\ last.err = Ok)
    => nodes[last.filename] = {r \in last.nodes : ~(last.x <= r.id /\ r.id <= last.y)}

\* C3 as stated: a successful delnodec removes at most count nodes.
C3_AtMostCount ==
  (last.op = "delnodec" /\ last.err = Ok)
    => Cardinality(last.nodes \ nodes[last.filename]) <= last.y

\* C4: create on a name that has a file, frozen or not, fails with "File
\* exists." for every authenticated claimant and leaves the file's row and
\* nodes as they were; no name ever has more than one row in files.
C4_FileExists ==
  /\ \A n \in Names : Cardinality(files[n]) <= 1
  /\ (/\ last.op = "create"
      /\ Authenticated
      /\ length(last.filename) >= 1 /\ length(last.filename) <= 12
      /\ last.file # {})
       => /\ last.err = FileExists
          /\ files[last.filename] = last.file
          /\ nodes[last.filename] = last.nodes

\* a frozen file with nodes, claimed again by one the name check would accept
C4_Witness ==
  /\ last.op = "create" /\ Authenticated
  /\ last.file = {file(EmptyName)} /\ last.nodes # {}
  /\ AuthorizeName(last.owner, last.filename) = Ok
  /\ last.err = FileExists

\* C5: create of an undotted name of 12 characters that has no file succeeds
\* for every authenticated claimant and stores the claimant as owner.
C5_FullLength ==
  (FreshCreate /\ length(last.filename) = 12 /\ ~Dotted(last.filename))
    => (last.err = Ok /\ Created)

\* the name has a namebids row and an account, and the claimant is neither
C5_Witness ==
  /\ FreshCreate /\ length(last.filename) = 12 /\ ~Dotted(last.filename)
  /\ last.bid # {} /\ last.acct
  /\ \A r \in last.bid : r.high_bidder # last.owner
  /\ last.owner # last.filename
  /\ last.err = Ok /\ Created

ShortTop == length(last.filename) < 12 /\ ~Dotted(last.filename)

\* C6: create of a short undotted name that has no file and has a namebids
\* row succeeds exactly when the auction is closed and the claimant is the
\* high bidder; an open auction gives "Suffix auction open.", a closed one
\* gives every other claimant "Suffix winning bid not owned.".
C6_BidEntry ==
  (FreshCreate /\ ShortTop /\ last.bid # {})
    => \A r \in last.bid :
         /\ last.err = Ok <=> (r.high_bid < 0 /\ r.high_bidder = last.owner)
         /\ r.high_bid >= 0 => last.err = AuctionOpen
         /\ (r.high_bid < 0 /\ r.high_bidder # last.owner) => last.err = WrongBidder
         /\ last.err # Ok => files[last.filename] = {}

\* the account named like the file is turned away once another won the name
C6_Witness ==
  /\ FreshCreate /\ ShortTop
  /\ \E r \in last.bid : r.high_bid < 0 /\ r.high_bidder # last.owner
  /\ last.owner = last.filename /\ last.acct
  /\ last.err = WrongBidder

C9_FrozenRejects ==
  /\ []((last.op = "setimmutable" /\ last.err = Ok) => Frozen(last.filename))
  /\ [][\A n \in Names :
          Frozen(n) =>
            /\ Frozen(n)'
            /\ (last'.filename = n /\ last'.op \in GatedOps
                  /\ has_auth(last'.actor, last'.owner))
                 => last'.err = NotOwner]_vars

\* an existing account is refused a setnode on a frozen file
C9_Witness ==
  /\ last.op = "setnode" /\ Authenticated /\ last.owner \in Signers
  /\ last.file = {file(EmptyName)}
  /\ last.err = NotOwner

\* C10: once a file is frozen no step changes its row or its nodes.
C10_FrozenAbsorbing ==
  [][\A n \in Names :
       Frozen(n) => (files'[n] = files[n] /\ nodes'[n] = nodes[n])]_vars

\* a frozen file that holds nodes has refused a del naming the empty owner
C10_Witness ==
  /\ last.op = "del" /\ last.owner = EmptyName
  /\ Frozen(last.filename) /\ nodes[last.filename] # {}
  /\ last.err # Ok

\* the owner stored in the row of a file that has one
StoredOwner(n) == (CHOOSE r \in files[n] : TRUE).owner

\* C11: a step that changes the row or the nodes of a name that has a file
\* is an owner's action on that name whose authenticated caller is the owner
\* stored in the row before the step.
C11_OnlyOwnerWrites ==
  [][\A n \in Names :
       (files[n] # {} /\ (files'[n] # files[n] \/ nodes'[n] # nodes[n]))
         => /\ last'.filename = n
            /\ last'.op \in GatedOps
            /\ last'.err = Ok
            /\ has_auth(last'.actor, last'.owner)
            /\ last'.actor = StoredOwner(n)]_vars

\* b owns the file and has overwritten a node of it, while a also exists
C11_Witness ==
  /\ last.op = "setnode" /\ last.err = Ok /\ last.actor = NameB
  /\ last.file = {file(NameB)}
  /\ \E r \in last.nodes : r.id = last.x /\ r.data # last.data
  /\ NameA \in accounts

\* C12: a successful del leaves the name without a row in files and without
\* nodes, so that create of the name is decided by the name check alone, as
\* for a name never created; a successful create leaves a file with no nodes.
C12_DeleteToFresh ==
  /\ (last.op = "del" /\ last.err = Ok)
       => /\ files[last.filename] = {}
          /\ nodes[last.filename] = {}
          /\ \A c \in Signers \cap accounts :
               CreateResult(c, c, last.filename) = AuthorizeName(c, last.filename)
  /\ (last.op = "create" /\ last.err = Ok)
       => (Created /\ nodes[last.filename] = {})

\* a file with nodes was deleted and another account may now create it
C12_Witness ==
  /\ last.op = "del" /\ last.err = Ok /\ last.nodes # {}
  /\ \E c \in Signers \cap accounts :
       c # last.owner /\ CreateResult(c, c, last.filename) = Ok

\* C13: a successful reset leaves the file without nodes and its row as it
\* was, and the same owner passes the checks of a setnode that follows.
C13_ResetKeepsFile ==
  (last.op = "reset" /\ last.err = Ok)
    => /\ nodes[last.filename] = {}
       /\ files[last.filename] = last.file
       /\ files[last.filename] = {file(last.owner)}
       /\ auth_and_find_file(last.actor, last.owner, last.filename) = Ok

\* a reset of a file that held more than one node
C13_Witness ==
  /\ last.op = "reset" /\ last.err = Ok
  /\ Cardinality(last.nodes) >= 2
  /\ nodes[last.filename] = {}

\* the delnode that ran last would succeed again and remove nothing
DelnodeAgain ==
  /\ auth_and_find_file(last.actor, last.owner, last.filename) = Ok
  /\ delnode_rows(nodes[last.filename], last.x) = nodes[last.filename]

\* C15: a successful delnode removes the node of the given id if there is one
\* and changes nothing else in any table; running it again succeeds and
\* removes nothing more.
C15_DelnodeIdempotent ==
  [][(last'.op = "delnode" /\ last'.err = Ok)
       => /\ nodes' = [nodes EXCEPT ![last'.filename] =
                         {r \in @ : r.id # last'.x}]
          /\ files' = files /\ bids' = bids /\ accounts' = accounts
          /\ DelnodeAgain']_vars

\* delnode of an id that has no node, in a file that holds another node
C15_Witness ==
  /\ last.op = "delnode" /\ last.err = Ok
  /\ last.nodes # {} /\ \A r \in last.nodes : r.id # last.x
  /\ nodes[last.filename] = last.nodes

\* C17: after a successful setnode the node of the given id holds the given
\* data, paid by the caller if the node is new and by its former payer if it
\* was there; the other nodes and the file's row are as they were.
C17_Upsert ==
  (last.op = "setnode" /\ last.err = Ok)
    => /\ nodes[last.filename] =
            {r \in last.nodes : r.id # last.x}
              \cup {node(last.x, last.data,
                         IF \E r \in last.nodes : r.id = last.x
                         THEN (CHOOSE r \in last.nodes : r.id = last.x).payer
                         ELSE last.owner)}
       /\ files[last.filename] = last.file

\* a node overwritten with other data while another node is in the file
C17_Witness ==
  /\ last.op = "setnode" /\ last.err = Ok
  /\ \E r \in last.nodes : r.id = last.x /\ r.data # last.data
  /\ \E r \in last.nodes : r.id # last.x

\* C18: an owner's action by an authenticated caller fails with "File does
\* not exist." when the name has no row in files, with "Not file owner." when
\* the row's owner is not the caller, and passes otherwise.
C18_GateOrder ==
  (last.op \in GatedOps /\ Authenticated)
    => last.err = IF last.file = {} THEN NoFile
                  ELSE IF \E r \in last.file : r.owner # last.owner THEN NotOwner
                  ELSE Ok

\* an account is refused on the file of another account
C18_Witness ==
  /\ last.op \in GatedOps /\ Authenticated
  /\ last.file = {file(NameA)} /\ last.owner = NameB
  /\ last.err = NotOwner

\* C19: a name that has nodes has a row in files.
C19_NoOrphanNodes ==
  \A n \in Names : nodes[n] # {} => files[n] # {}

\* a file that held nodes was deleted
C19_Witness ==
  /\ last.op = "del" /\ last.err = Ok
  /\ Cardinality(last.nodes) >= 2
  /\ files[last.filename] = {}

\* the number of consecutive ids from i on that have a node
RECURSIVE RunLen(_, _)
RunLen(tbl, i) ==
  IF \E r \in tbl : r.id = i THEN 1 + RunLen(tbl, i + 1) ELSE 0

\* C14: delnodec by the owner succeeds, and when count is at least the length
\* of the run of consecutive ids that starts at startid it removes exactly
\* that run (nothing when startid has no node): the nodes below startid and
\* from the first missing id on stay, with their data.
C14_ContiguousRun ==
  /\ (last.op = "delnodec" /\ Authenticated /\ last.file = {file(last.owner)})
       => last.err = Ok
  /\ (last.op = "delnodec" /\ last.err = Ok
        /\ last.y >= RunLen(last.nodes, last.x))
       => nodes[last.filename] =
            {r \in last.nodes :
               r.id < last.x \/ r.id >= last.x + RunLen(last.nodes, last.x)}

\* a run of one node, a gap and a node behind it: only the run is removed,
\* fewer nodes than count
C14_Witness ==
  /\ last.op = "delnodec" /\ last.err = Ok
  /\ {r.id : r \in last.nodes} = {last.x, last.x + 2}
  /\ last.y > RunLen(last.nodes, last.x)
  /\ {r.id : r \in nodes[last.filename]} = {last.x + 2}

\* C16: a step whose action fails leaves the files and nodes tables of every
\* name as they were.
C16_FailureChangesNothing ==
  [][last'.err # Ok => (files' = files /\ nodes' = nodes)]_vars

\* a delnodes refused to an account that does not own the file, whose nodes
\* are still there
C16_Witness ==
  /\ last.op = "delnodes" /\ last.err = NotOwner
  /\ last.nodes # {} /\ nodes[last.filename] = last.nodes
  /\ \E n \in PairNames : n # last.filename /\ nodes[n] # {}

\* C20: an action of the contract on one name, failed or not, leaves the
\* row and the nodes of every other name as they were, and writes neither the
\* bids nor the accounts; an action reads nothing else than the tables of its
\* own name, the bids and the accounts, so two actions on different names can
\* be exchanged.
C20_OtherNamesUntouched ==
  [][last'.op # "env" =>
       /\ [files' EXCEPT ![last'.filename] = files[last'.filename]] = files
       /\ [nodes' EXCEPT ![last'.filename] = nodes[last'.filename]] = nodes
       /\ bids' = bids /\ accounts' = accounts]_vars

\* b deleted its sub-name with its nodes; the name, owned by a, kept its own
C20_Witness ==
  /\ last.op = "del" /\ last.err = Ok /\ last.filename = SubName
  /\ last.nodes # {} /\ last.owner = NameB
  /\ files[NameA] = {file(NameA)} /\ nodes[NameA] # {}
====
